---- MODULE Spec2Model ----
(***************************************************************************)
(* ParkPal: booking creation (ListingDetail.handleBooking), the payment     *)
(* library (createPaymentIntent, confirmPayment, processRefund), the        *)
(* PaymentSheet, the license plate verification library and the            *)
(* LicensePlateManager, over the shared document store (collections        *)
(* `bookings`, `payments`, `license_plate_verifications`, `users`).        *)
(*                                                                         *)
(* Every driver runs the listing screen on their own device, so the two    *)
(* remote calls of handleBooking (overlap query, booking write) of one     *)
(* driver interleave with those of the other.  Documents are identified by *)
(* their position in the collection (Firestore auto ids are unique).       *)
(* Timestamps created_at / updated_at / refunded_at are not modelled.      *)
(***************************************************************************)
EXTENDS Integers, Sequences, FiniteSets, TLC

\* ------------------------------------------------------------------ bounds
MaxBookings == 2
MaxPayments == 1
MaxSheetPayments == 2
MaxVerifications == 2
MaxPlates == 3
MaxPlateClock == 3

\* ------------------------------------------------------------ input sets
\* the null values of the screen state: no day, no slot, no plate picked
NoDay == 0
NoSlot == [startTime |-> <<>>, endTime |-> <<>>]
NoPlate == [plateNumber |-> <<>>, state |-> <<>>]
NoData == <<>>
Drivers == {"d1", "d2"}
Hosts == {"h1"}
Users == Drivers \cup Hosts

\* listing documents as loadListing leaves them in screen state
Listings ==
  { [id |-> "L1", user_id |-> "h1", price_per_hour |-> 10],
    [id |-> "L2", user_id |-> "h1", price_per_hour |-> 4] }

\* the day picked in the calendar (days since an arbitrary origin)
Days == {1}

\* "HH:MM" strings of a time slot, already split at ':' and mapped to Number
TimeSlots ==
  { [startTime |-> <<9, 0>>,  endTime |-> <<10, 0>>],
    [startTime |-> <<9, 30>>, endTime |-> <<10, 30>>],
    [startTime |-> <<10, 0>>, endTime |-> <<11, 0>>],
    [startTime |-> <<10, 0>>, endTime |-> <<10, 0>>] }

\* strings that the code takes apart are sequences of characters
PlateABC123 == <<"A", "B", "C", "1", "2", "3">>
PlateXYZ789 == <<"X", "Y", "Z", "7", "8", "9">>
StateCA == <<"C", "A">>
StateNY == <<"N", "Y">>

LicensePlates == { [plateNumber |-> PlateABC123, state |-> StateCA] }

BookingStatus == {"pending", "confirmed", "cancelled", "completed"}
PaymentStatus == {"pending", "processing", "completed", "failed", "refunded"}

\* -------------------------------------------------------------- variables
VARIABLES
  bookings,          \* collection `bookings`
  payments,          \* collection `payments`
  pc,                \* per driver: position inside handleBooking
  bookingData,       \* per driver: const bookingData of the running handleBooking
  bookingId,         \* per driver: screen state bookingId
  bookingAmount,     \* per driver: screen state bookingAmount
  showPaymentModal,  \* per driver: screen state showPaymentModal
  alert,             \* the last alert shown by a handleBooking, and on whose screen
  lastCall,          \* outcome of the last call into lib/payments
  serial,            \* history: no handleBooking started while another was in flight
  checkThrew,        \* history: some overlap query has thrown
  paymentIntent,     \* per driver: PaymentSheet state paymentIntent
  sheetVisible,      \* per driver: the `visible` prop the sheet's effect last ran with
  loading,           \* per driver: PaymentSheet state loading
  paymentStep,       \* per driver: PaymentSheet state paymentStep
  successTimer,      \* per driver: the setTimeout of handlePayment is pending
  verifications,     \* collection `license_plate_verifications`
  licensePlates,     \* LicensePlateManager state licensePlates
  userPlates,        \* field licensePlates of the user's document in `users`
  plateNumber,       \* LicensePlateManager state plateNumber (the text field)
  selectedState,     \* LicensePlateManager state selectedState
  plateClock,        \* Date.now() at the last plate added
  writeFailed        \* history: some write of the user's document has failed

sheetVars == <<paymentIntent, sheetVisible, loading, paymentStep,
               successTimer>>

plateVars == <<licensePlates, userPlates, plateNumber, selectedState,
               plateClock, writeFailed>>

\* the state outside the listing screen and the two collections it uses
otherVars == <<sheetVars, verifications, plateVars>>

vars == <<bookings, payments, pc, bookingData, bookingId,
          bookingAmount, showPaymentModal, alert, lastCall, serial, checkThrew,
          paymentIntent, sheetVisible, loading, paymentStep, successTimer,
          verifications,
          licensePlates, userPlates, plateNumber, selectedState, plateClock,
          writeFailed>>

screenVars == <<pc, bookingData, bookingId, bookingAmount,
                showPaymentModal, alert, serial, checkThrew>>

\* ------------------------------------------------------------- date maths
\* new Date(selectedDate).setHours(h, m, 0, 0), in minutes
SetHours(day, hm) == day * 1440 + hm[1] * 60 + hm[2]

\* Date.toISOString(): the fixed-width text yyyy-mm-ddThh:mm, as its fields
ToISOString(t) == <<t \div 1440, (t % 1440) \div 60, t % 60>>

\* string comparison of two ISO texts (field by field, left to right)
IsoLess(a, b) ==
  \/ a[1] < b[1]
  \/ a[1] = b[1] /\ a[2] < b[2]
  \/ a[1] = b[1] /\ a[2] = b[2] /\ a[3] < b[3]

\* minutes denoted by an ISO text
IsoMinutes(a) == a[1] * 1440 + a[2] * 60 + a[3]

\* mutant of TotalPrice: every started hour is charged
TotalPriceStartedHours(startDate, endDate, price) ==
  ((endDate - startDate + 59) \div 60) * price

\* durationInHours * price_per_hour, computed in doubles: for a duration of a
\* whole number of half hours and an integer price the quotient ms / 3600000
\* and the product are dyadic rationals that a double holds exactly, so the
\* integer quotient below is the double's value for the slots and prices of
\* this model
TotalPrice(startDate, endDate, price) == ((endDate - startDate) * price) \div 60

\* --------------------------------------------------------- lib/bookings
\* mutant of Overlaps: touching intervals count as overlapping
OverlapsClosed(existing, start, end) ==
  ~IsoLess(end, existing.start_time) /\ ~IsoLess(existing.end_time, start)

\* existing.start_time < end && existing.end_time > start, on the ISO texts
Overlaps(existing, start, end) ==
  IsoLess(existing.start_time, end) /\ IsoLess(start, existing.end_time)

\* mutant of FilterIds: the listing is not looked at
RECURSIVE FilterIdsAnyListing(_, _, _, _, _)
FilterIdsAnyListing(store, i, listingId, start, end) ==
  IF i > Len(store) THEN <<>>
  ELSE LET rest == FilterIdsAnyListing(store, i + 1, listingId, start, end)
       IN IF Overlaps(store[i], start, end)
          THEN <<i>> \o rest
          ELSE rest

RECURSIVE FilterIds(_, _, _, _, _)
FilterIds(store, i, listingId, start, end) ==
  IF i > Len(store) THEN <<>>
  ELSE LET rest == FilterIds(store, i + 1, listingId, start, end)
       IN IF store[i].listing_id = listingId /\ Overlaps(store[i], start, end)
          THEN <<i>> \o rest
          ELSE rest

\* getOverlappingBookings(listingId, startTime, endTime): ids of the hits
GetOverlappingBookings(listingId, start, end) ==
  FilterIds(bookings, 1, listingId, start, end)

\* createBooking(bookingData): the collection after addDoc
CreateBooking(data) == Append(bookings, data)

\* ------------------------------------------------------- handleBooking
\* mutant of MakeBookingData: the plate's state is not taken from the selection
MakeBookingDataStateCA(uid, listing, startDate, endDate, plate) ==
  [ listing_id |-> listing.id,
    user_id |-> uid,
    host_id |-> listing.user_id,
    start_time |-> ToISOString(startDate),
    end_time |-> ToISOString(endDate),
    total_price |-> TotalPrice(startDate, endDate, listing.price_per_hour),
    status |-> "pending",
    license_plate |-> plate.plateNumber,
    license_plate_state |-> StateCA,
    payment_id |-> 0 ]

\* the bookingData literal of handleBooking
MakeBookingData(uid, listing, startDate, endDate, plate) ==
  [ listing_id |-> listing.id,
    user_id |-> uid,
    host_id |-> listing.user_id,
    start_time |-> ToISOString(startDate),
    end_time |-> ToISOString(endDate),
    total_price |-> TotalPrice(startDate, endDate, listing.price_per_hour),
    status |-> "pending",
    license_plate |-> plate.plateNumber,
    license_plate_state |-> plate.state,
    payment_id |-> 0 ]

\* mutants of AfterOverlapCheck: one hit is let through; never reject;
\* a thrown query stops the booking
AfterOverlapCheckOneHit(threw, result) ==
  IF threw THEN "create"
  ELSE IF Len(result) > 1 THEN "rejected"
  ELSE "create"

AfterOverlapCheckNeverReject(threw, result) == "create"

AfterOverlapCheckFailClosed(threw, result) ==
  IF threw THEN "rejected"
  ELSE IF Len(result) > 0 THEN "rejected"
  ELSE "create"

\* where handleBooking goes after the overlap query: the query threw (the
\* inner catch only logs), or it returned `result`
AfterOverlapCheck(threw, result) ==
  IF threw THEN "create"
  ELSE IF Len(result) > 0 THEN "rejected"
  ELSE "create"

InFlight == {d \in Drivers : pc[d] = "create"}

\* mutant of StartNotBeforeEnd: an empty interval is let through
StartAfterEnd(startDate, endDate) == startDate > endDate

\* the test `startDate >= endDate` of handleBooking
StartNotBeforeEnd(startDate, endDate) == startDate >= endDate

\* alert(msg) on d's screen
Alert(d, msg) == [on |-> d, text |-> msg]

Reject(d, msg) ==
  /\ alert' = Alert(d, msg)
  /\ UNCHANGED <<bookings, payments, pc, bookingData, bookingId,
                 bookingAmount, showPaymentModal, lastCall, serial,
                 checkThrew, otherVars>>

\* handleBooking from its entry up to the await of getOverlappingBookings
\* and the branch on its result
HandleBookingCheck(d, signedIn, listing, day, slot, plate, threw) ==
  /\ pc[d] = "idle"
  /\ IF ~signedIn THEN Reject(d, "sign_in")
     ELSE IF day = NoDay \/ slot = NoSlot THEN Reject(d, "select_slot")
     ELSE IF plate = NoPlate THEN Reject(d, "plate_required")
     ELSE LET startDate == SetHours(day, slot.startTime)
              endDate == SetHours(day, slot.endTime)
              data == MakeBookingData(d, listing, startDate, endDate, plate)
              result == GetOverlappingBookings(listing.id, data.start_time,
                                               data.end_time)
              next == AfterOverlapCheck(threw, result)
          IN IF StartNotBeforeEnd(startDate, endDate)
             THEN Reject(d, "start_before_end")
             ELSE /\ next = "create" =>
                       Len(bookings) + Cardinality(InFlight) < MaxBookings
                  /\ bookingData' = [bookingData EXCEPT ![d] =
                        IF next = "create" THEN data ELSE NoData]
                  /\ pc' = [pc EXCEPT ![d] = IF next = "create" THEN "create"
                                             ELSE "idle"]
                  /\ alert' = IF next = "create" THEN alert
                              ELSE Alert(d, "slot_taken")
                  /\ serial' = (serial /\ InFlight = {})
                  /\ checkThrew' = (checkThrew \/ threw)
                  /\ UNCHANGED <<bookings, payments, bookingId, bookingAmount,
                                 showPaymentModal, lastCall, otherVars>>

\* mutant of HandleBookingCreate: the write re-validates the overlap
HandleBookingCreateRevalidated(d, fails) ==
  /\ pc[d] = "create"
  /\ pc' = [pc EXCEPT ![d] = "idle"]
  /\ IF fails
     THEN /\ alert' = Alert(d, "create_failed")
          /\ UNCHANGED <<bookings, bookingId, bookingAmount, showPaymentModal>>
     ELSE IF Len(GetOverlappingBookings(bookingData[d].listing_id,
                    bookingData[d].start_time, bookingData[d].end_time)) > 0
     THEN /\ alert' = Alert(d, "slot_taken")
          /\ UNCHANGED <<bookings, bookingId, bookingAmount, showPaymentModal>>
     ELSE /\ bookings' = CreateBooking(bookingData[d])
          /\ bookingId' = [bookingId EXCEPT ![d] = Len(bookings) + 1]
          /\ bookingAmount' = [bookingAmount EXCEPT ![d] = bookingData[d].total_price]
          /\ showPaymentModal' = [showPaymentModal EXCEPT ![d] = TRUE]
          /\ alert' = alert
  /\ bookingData' = [bookingData EXCEPT ![d] = NoData]
  /\ UNCHANGED <<payments, lastCall, serial, checkThrew, otherVars>>

\* handleBooking from createBooking to the end; `fails`: createBooking throws
HandleBookingCreate(d, fails) ==
  /\ pc[d] = "create"
  /\ pc' = [pc EXCEPT ![d] = "idle"]
  /\ IF fails
     THEN /\ alert' = Alert(d, "create_failed")
          /\ UNCHANGED <<bookings, bookingId, bookingAmount, showPaymentModal>>
     ELSE /\ bookings' = CreateBooking(bookingData[d])
          /\ bookingId' = [bookingId EXCEPT ![d] = Len(bookings) + 1]
          /\ bookingAmount' = [bookingAmount EXCEPT ![d] = bookingData[d].total_price]
          /\ showPaymentModal' = [showPaymentModal EXCEPT ![d] = TRUE]
          /\ alert' = alert
  /\ bookingData' = [bookingData EXCEPT ![d] = NoData]
  /\ UNCHANGED <<payments, lastCall, serial, checkThrew, otherVars>>

\* --------------------------------------------------------- lib/payments
NoUser == "nobody"
NoIntent == <<>>
NoMethod == ""

\* `pi_${Date.now()}_${random}`: a fresh id for the n-th payment record
IntentId(n) == <<"pi", n>>
ClientSecret(n) == <<"secret", n>>
IntentIds == {IntentId(n) : n \in 1..(MaxPayments + 1)}

\* amounts passed to createPaymentIntent, and to processRefund (NoAmount: the
\* optional argument is left out)
NoAmount == -1
PaymentAmounts == {10}
RefundAmounts == {NoAmount, 0, 1, 10}

\* what the last call returned ("ok", ret) or threw (the error, no value)
Call(op, outcome, ret) == [op |-> op, outcome |-> outcome, ret |-> ret]

Throw(op, msg) ==
  /\ lastCall' = Call(op, msg, 0)
  /\ UNCHANGED <<bookings, payments>>

\* mutant of PaymentData: the payer is recorded as the payee
PaymentDataPayerAsHost(bId, uid, bookingDoc, amount) ==
  [ booking_id |-> bId,
    user_id |-> uid,
    host_id |-> uid,
    amount |-> amount,
    status |-> "pending",
    payment_intent_id |-> NoIntent,
    payment_method_id |-> NoMethod ]

\* the paymentData literal of createPaymentIntent
PaymentData(bId, uid, bookingDoc, amount) ==
  [ booking_id |-> bId,
    user_id |-> uid,
    host_id |-> bookingDoc.host_id,
    amount |-> amount,
    status |-> "pending",
    payment_intent_id |-> NoIntent,
    payment_method_id |-> NoMethod ]

\* the mockPaymentIntent literal of createPaymentIntent
MockPaymentIntent(n, amount) ==
  [ id |-> IntentId(n),
    amount |-> amount * 100,
    status |-> "requires_payment_method",
    client_secret |-> ClientSecret(n) ]

\* createPaymentIntent(bookingId, amount) with auth.currentUser = u;
\* `fail` names the store call that throws, if any; `max` caps the collection
CreatePaymentIntentUpTo(u, bId, amount, fail, max) ==
  LET op == "createPaymentIntent"
      n == Len(payments) + 1
      intent == MockPaymentIntent(n, amount)
  IN    IF u = NoUser THEN Throw(op, "unauthenticated")
        ELSE IF fail = "getDoc" THEN Throw(op, "store_error")
        ELSE IF bId \notin DOMAIN bookings THEN Throw(op, "not_found")
        ELSE IF fail = "addDoc" THEN Throw(op, "store_error")
        ELSE /\ Len(payments) < max
             /\ IF fail = "updateDoc"
                THEN /\ lastCall' = Call(op, "store_error", 0)
                     /\ payments' = Append(payments,
                                      PaymentData(bId, u, bookings[bId], amount))
                ELSE /\ lastCall' = Call(op, "ok", intent)
                     /\ payments' = Append(payments,
                          [PaymentData(bId, u, bookings[bId], amount)
                             EXCEPT !.payment_intent_id = intent.id])
             /\ UNCHANGED bookings

CreatePaymentIntentStore(u, bId, amount, fail) ==
  CreatePaymentIntentUpTo(u, bId, amount, fail, MaxPayments)

CreatePaymentIntent(u, bId, amount, fail) ==
  /\ CreatePaymentIntentStore(u, bId, amount, fail)
  /\ UNCHANGED <<screenVars, otherVars>>

\* mutant of PaymentsQuery: the user is not part of the query
PaymentsQueryAnyUser(intentId, uid) ==
  {p \in DOMAIN payments : payments[p].payment_intent_id = intentId}

\* the payment documents confirmPayment's query returns
PaymentsQuery(intentId, uid) ==
  {p \in DOMAIN payments : /\ payments[p].payment_intent_id = intentId
                           /\ payments[p].user_id = uid}

\* updatedPaymentData of confirmPayment
CompletedPayment(paymentData, methodId) ==
  [paymentData EXCEPT !.status = "completed", !.payment_method_id = methodId]

\* mutant of ConfirmedBooking: the payment id is not recorded
ConfirmedBookingNoPaymentId(bookingDoc, paymentId) ==
  [bookingDoc EXCEPT !.status = "confirmed"]

\* the booking fields confirmPayment writes
ConfirmedBooking(bookingDoc, paymentId) ==
  [bookingDoc EXCEPT !.status = "confirmed", !.payment_id = paymentId]

\* mutant of ConfirmPaymentStore: the booking is written before the payment
ConfirmPaymentStoreBookingFirst(u, intentId, methodId, fail) ==
  LET op == "confirmPayment"
      docs == PaymentsQuery(intentId, u)
  IN IF u = NoUser THEN Throw(op, "unauthenticated")
     ELSE IF fail = "getDocs" THEN Throw(op, "store_error")
     ELSE IF docs = {} THEN Throw(op, "not_found")
     ELSE IF fail = "updateBooking" THEN Throw(op, "store_error")
     ELSE \E p \in docs :
            LET b == payments[p].booking_id
            IN /\ IF fail = "updatePayment"
                  THEN /\ lastCall' = Call(op, "store_error", 0)
                       /\ UNCHANGED payments
                  ELSE /\ lastCall' = Call(op, "ok", p)
                       /\ payments' = [payments EXCEPT
                              ![p] = CompletedPayment(payments[p], methodId)]
               /\ bookings' = [bookings EXCEPT
                                 ![b] = ConfirmedBooking(bookings[b], p)]

\* confirmPayment(paymentIntentId, paymentMethodId) with auth.currentUser = u;
\* `fail` names the store call that throws, if any
ConfirmPaymentStore(u, intentId, methodId, fail) ==
  LET op == "confirmPayment"
      docs == PaymentsQuery(intentId, u)
  IN IF u = NoUser THEN Throw(op, "unauthenticated")
     ELSE IF fail = "getDocs" THEN Throw(op, "store_error")
     ELSE IF docs = {} THEN Throw(op, "not_found")
     ELSE IF fail = "updatePayment" THEN Throw(op, "store_error")
     ELSE \E p \in docs :
            LET b == payments[p].booking_id
            IN /\ IF fail = "updateBooking"
                  THEN /\ lastCall' = Call(op, "store_error", 0)
                       /\ UNCHANGED bookings
                  ELSE /\ lastCall' = Call(op, "ok", p)
                       /\ bookings' = [bookings EXCEPT
                              ![b] = ConfirmedBooking(bookings[b], p)]
               /\ payments' = [payments EXCEPT
                                 ![p] = CompletedPayment(payments[p], methodId)]

ConfirmPayment(u, intentId, methodId, fail) ==
  /\ ConfirmPaymentStore(u, intentId, methodId, fail)
  /\ UNCHANGED <<screenVars, otherVars>>

\* the authorization test of processRefund
MayRefund(paymentData, uid) ==
  ~(paymentData.user_id # uid /\ paymentData.host_id # uid)

\* updatedPaymentData of processRefund
RefundedPayment(paymentData) == [paymentData EXCEPT !.status = "refunded"]

\* the full-refund test of processRefund, !amount || amount >=
\* paymentData.amount: !amount holds of the omitted amount and of 0
IsFullRefund(amount, paymentData) ==
  IF amount = NoAmount THEN TRUE
  ELSE amount = 0 \/ amount >= paymentData.amount

\* the booking fields processRefund writes
CancelledBooking(bookingDoc) == [bookingDoc EXCEPT !.status = "cancelled"]

\* processRefund(paymentId, amount) with auth.currentUser = u
ProcessRefund(u, pId, amount, fail) ==
  LET op == "processRefund"
  IN /\ IF u = NoUser THEN Throw(op, "unauthenticated")
        ELSE IF fail = "getDoc" THEN Throw(op, "store_error")
        ELSE IF pId \notin DOMAIN payments THEN Throw(op, "not_found")
        ELSE IF ~MayRefund(payments[pId], u) THEN Throw(op, "not_authorized")
        ELSE IF fail = "updatePayment" THEN Throw(op, "store_error")
        ELSE LET b == payments[pId].booking_id
             IN /\ IF IsFullRefund(amount, payments[pId])
                   THEN IF fail = "updateBooking"
                        THEN /\ lastCall' = Call(op, "store_error", 0)
                             /\ UNCHANGED bookings
                        ELSE /\ lastCall' = Call(op, "ok", pId)
                             /\ bookings' = [bookings EXCEPT
                                   ![b] = CancelledBooking(bookings[b])]
                   ELSE /\ lastCall' = Call(op, "ok", pId)
                        /\ UNCHANGED bookings
                /\ payments' = [payments EXCEPT
                                  ![pId] = RefundedPayment(payments[pId])]
     /\ UNCHANGED <<screenVars, otherVars>>

\* --------------------------------------------------------------- Init/Next
NoCall == Call("none", "none", 0)

ScreenInit ==
  /\ pc = [d \in Drivers |-> "idle"]
  /\ bookingData = [d \in Drivers |-> NoData]
  /\ bookingId = [d \in Drivers |-> 0]
  /\ bookingAmount = [d \in Drivers |-> 0]
  /\ showPaymentModal = [d \in Drivers |-> FALSE]
  /\ alert = [on |-> "d1", text |-> "none"]
  /\ serial = TRUE
  /\ checkThrew = FALSE

\* a PaymentSheet that has not been shown
SheetInit ==
  /\ paymentIntent = [d \in Drivers |-> NoIntent]
  /\ sheetVisible = [d \in Drivers |-> FALSE]
  /\ loading = [d \in Drivers |-> FALSE]
  /\ paymentStep = [d \in Drivers |-> "initial"]
  /\ successTimer = [d \in Drivers |-> FALSE]

\* a LicensePlateManager of a user without plates
PlatesInit ==
  /\ licensePlates = <<>>
  /\ userPlates = <<>>
  /\ plateNumber = <<>>
  /\ selectedState = StateCA
  /\ plateClock = 0
  /\ writeFailed = FALSE

OtherInit ==
  /\ SheetInit
  /\ verifications = <<>>
  /\ PlatesInit

Init ==
  /\ bookings = <<>>
  /\ payments = <<>>
  /\ lastCall = NoCall
  /\ ScreenInit
  /\ OtherInit

Slot9 == [startTime |-> <<9, 0>>, endTime |-> <<10, 0>>]
Slot10 == [startTime |-> <<10, 0>>, endTime |-> <<11, 0>>]
ListingOf(id) == CHOOSE l \in Listings : l.id = id

\* the full selections offered: every slot of listing L1, and the 09:00 slot
\* of listing L2
Selections ==
  ({ListingOf("L1")} \X Days \X TimeSlots \X LicensePlates) \cup
  ({ListingOf("L2")} \X Days \X {Slot9} \X LicensePlates)

\* what a press of the booking button finds: signed in or not, the listing
\* of the screen, the day and slot picked (or none), the plate picked (or
\* none), and whether the overlap query then throws; one press for each way
\* to fail a check before the query, and every full selection
Presses ==
  {<<FALSE, ListingOf("L1"), day, Slot9, plate, FALSE>> :
      day \in Days, plate \in LicensePlates} \cup
  {<<TRUE, ListingOf("L1"), NoDay, NoSlot, plate, FALSE>> :
      plate \in LicensePlates} \cup
  {<<TRUE, ListingOf("L1"), day, Slot9, NoPlate, FALSE>> : day \in Days} \cup
  {<<TRUE, sel[1], sel[2], sel[3], sel[4], FALSE>> : sel \in Selections} \cup
  {<<TRUE, sel[1], sel[2], sel[3], sel[4], TRUE>> :
      sel \in {x \in Selections : x[3].startTime # x[3].endTime}}

Next ==
  \/ \E d \in Drivers, press \in Presses :
       HandleBookingCheck(d, press[1], press[2], press[3], press[4],
                          press[5], press[6])
  \/ \E d \in Drivers, fails \in BOOLEAN : HandleBookingCreate(d, fails)

\* booking creation by two drivers, no payment made
Spec == Init /\ [][Next]_vars

\* the bookings two completed handleBooking runs leave in the store
BookingOf(d, listingId, slot) ==
  MakeBookingData(d, ListingOf(listingId), SetHours(1, slot.startTime),
                  SetHours(1, slot.endTime),
                  [plateNumber |-> PlateABC123, state |-> StateCA])
PayStore == <<BookingOf("d1", "L1", Slot9), BookingOf("d2", "L2", Slot9)>>

InitPay ==
  /\ bookings = PayStore
  /\ payments = <<>>
  /\ lastCall = NoCall
  /\ ScreenInit
  /\ OtherInit

\* the store call that fails during a call, if any
CreateFailures == {"none", "getDoc", "addDoc", "updateDoc"}
ConfirmFailures == {"none", "getDocs", "updatePayment", "updateBooking"}
RefundFailures == {"none", "getDoc", "updatePayment", "updateBooking"}

\* the calls made: one without a signed-in user for each function, and by
\* every user every argument with every failing store call (for a booking
\* that is not stored only the read can fail)
BookingIds == 1..(Len(PayStore) + 1)
PaymentIds == 1..(MaxPayments + 1)

CreateCalls ==
  {<<NoUser, 1, amount, "none">> : amount \in PaymentAmounts} \cup
  {call \in Users \X BookingIds \X PaymentAmounts \X CreateFailures :
     call[2] > Len(PayStore) => call[4] \in {"none", "getDoc"}}

ConfirmCalls ==
  {<<NoUser, IntentId(1), "none">>} \cup
  (Users \X IntentIds \X ConfirmFailures)

\* (of the refunds with a failing store call those that differ in what they
\* do: the read fails the same way for every signed-in caller; a write is
\* reached only for a payment id that can be stored, and without an amount
\* the call reaches both writes)
RefundCalls ==
  {<<NoUser, 1, NoAmount, "none">>} \cup
  (Users \X PaymentIds \X RefundAmounts \X {"none"}) \cup
  {<<"d1", 1, NoAmount, "getDoc">>} \cup
  (Users \X (1..MaxPayments) \X {NoAmount}
     \X (RefundFailures \ {"none", "getDoc"}))

NextPay ==
  \/ \E call \in CreateCalls :
       CreatePaymentIntent(call[1], call[2], call[3], call[4])
  \/ \E call \in ConfirmCalls :
       ConfirmPayment(call[1], call[2], "stripe_payment_method", call[3])
  \/ \E call \in RefundCalls :
       ProcessRefund(call[1], call[2], call[3], call[4])

\* calls into lib/payments, in any order and by any user, on stored bookings
SpecPay == InitPay /\ [][NextPay]_vars

\* ---------------------------------------------------------- PaymentSheet
\* the sheet's useEffect on [visible]: it runs when the prop has changed and,
\* when the sheet is visible and holds no intent, starts initializePayment
\* (up to the await of createPaymentIntent); `signedIn`: useAuth() has a user
SheetEffect(d, signedIn) ==
  /\ showPaymentModal[d] # sheetVisible[d]
  /\ sheetVisible' = [sheetVisible EXCEPT ![d] = showPaymentModal[d]]
  /\ IF showPaymentModal[d] /\ paymentIntent[d] = NoIntent
     THEN IF ~signedIn
          THEN /\ alert' = Alert(d, "payment_failed")
               /\ UNCHANGED loading
          ELSE /\ loading' = [loading EXCEPT ![d] = TRUE]
               /\ UNCHANGED alert
     ELSE UNCHANGED <<loading, alert>>
  /\ UNCHANGED <<bookings, payments, lastCall, pc, bookingData, bookingId,
                 bookingAmount, showPaymentModal, serial, checkThrew,
                 paymentIntent, paymentStep, successTimer, verifications,
                 plateVars>>

\* initializePayment from the return of createPaymentIntent(bookingId, amount)
\* to its end; the props are the screen's bookingId and bookingAmount
InitializePaymentUpTo(d, fail, max) ==
  /\ loading[d] /\ paymentIntent[d] = NoIntent
  /\ CreatePaymentIntentUpTo(d, bookingId[d], bookingAmount[d], fail, max)
  /\ IF lastCall'.outcome = "ok"
     THEN /\ paymentIntent' = [paymentIntent EXCEPT ![d] = lastCall'.ret]
          /\ paymentStep' = [paymentStep EXCEPT ![d] = "initial"]
          /\ UNCHANGED alert
     ELSE /\ alert' = Alert(d, "payment_failed")
          /\ UNCHANGED <<paymentIntent, paymentStep>>
  /\ loading' = [loading EXCEPT ![d] = FALSE]
  /\ UNCHANGED <<pc, bookingData, bookingId, bookingAmount, showPaymentModal,
                 serial, checkThrew, sheetVisible, successTimer, verifications,
                 plateVars>>

InitializePaymentDone(d, fail) == InitializePaymentUpTo(d, fail, MaxPayments)

\* the slots and plates offered on the listing screens of the payment flow
SlotLong == [startTime |-> <<9, 0>>, endTime |-> <<11, 30>>]
FlowSlots ==
  { Slot9, SlotLong,
    [startTime |-> <<10, 0>>, endTime |-> <<10, 0>>],
    [startTime |-> <<11, 0>>, endTime |-> <<10, 0>>] }

FlowPlates ==
  { [plateNumber |-> PlateABC123, state |-> StateCA],
    [plateNumber |-> PlateXYZ789, state |-> StateNY] }

FlowSelections ==
  ({ListingOf("L1")} \X Days \X FlowSlots \X FlowPlates) \cup
  ({ListingOf("L2")} \X Days \X {SlotLong} \X FlowPlates)

\* the presses of the booking button, as in Presses
FlowPresses ==
  {<<FALSE, sel[1], sel[2], sel[3], sel[4], FALSE>> :
      sel \in {x \in FlowSelections : x[3] = Slot9}} \cup
  {<<TRUE, ListingOf("L1"), NoDay, NoSlot, plate, FALSE>> :
      plate \in FlowPlates} \cup
  {<<TRUE, ListingOf("L1"), day, NoSlot, plate, FALSE>> :
      day \in Days, plate \in FlowPlates} \cup
  {<<TRUE, ListingOf("L1"), day, Slot9, NoPlate, FALSE>> : day \in Days} \cup
  {<<TRUE, sel[1], sel[2], sel[3], sel[4], FALSE>> : sel \in FlowSelections} \cup
  {<<TRUE, sel[1], sel[2], sel[3], sel[4], TRUE>> :
      sel \in {x \in FlowSelections : x[3] = SlotLong}}

\* the booking button is under the PaymentSheet modal while that is shown
NextFlow ==
  \/ \E d \in Drivers, press \in FlowPresses :
       /\ ~showPaymentModal[d]
       /\ HandleBookingCheck(d, press[1], press[2], press[3], press[4],
                             press[5], press[6])
  \/ \E d \in Drivers, fails \in BOOLEAN : HandleBookingCreate(d, fails)
  \/ \E d \in Drivers, signedIn \in BOOLEAN : SheetEffect(d, signedIn)
  \/ \E d \in Drivers, fail \in CreateFailures : InitializePaymentDone(d, fail)

\* booking creation followed by the PaymentSheet's initialization
SpecFlow == Init /\ [][NextFlow]_vars

\* ------------------------------------------- PaymentSheet: paying, closing
\* what initPaymentSheet and presentPaymentSheet report to handlePayment
PaymentOutcomes == {"init_error", "canceled", "present_error", "paid"}

\* the modal is on screen: `visible` is true and the render that made it so
\* is committed (its effect has run)
SheetShown(d) == showPaymentModal[d] /\ sheetVisible[d]

\* the state of the listing screen and of the other components, which the
\* sheet's handlers leave alone
SheetFrame ==
  UNCHANGED <<pc, bookingData, bookingId, bookingAmount, serial, checkThrew,
              sheetVisible, verifications, plateVars>>

\* resetPayment
ResetPayment(d) ==
  /\ paymentIntent' = [paymentIntent EXCEPT ![d] = NoIntent]
  /\ paymentStep' = [paymentStep EXCEPT ![d] = "initial"]

\* a press of the Pay button (rendered in step initial) or of Try Again
\* (rendered in step error, it sets the step to initial first): handlePayment
\* up to its first await
HandlePaymentStart(d) ==
  /\ SheetShown(d) /\ ~loading[d]
  /\ paymentStep[d] \in {"initial", "error"}
  /\ IF paymentIntent[d] = NoIntent
     THEN /\ paymentStep' = [paymentStep EXCEPT ![d] = "initial"]
          /\ UNCHANGED loading
     ELSE /\ loading' = [loading EXCEPT ![d] = TRUE]
          /\ paymentStep' = [paymentStep EXCEPT ![d] = "processing"]
  /\ UNCHANGED <<bookings, payments, lastCall, alert, showPaymentModal,
                 paymentIntent, successTimer>>
  /\ SheetFrame

\* mutant of HostedSheetPaid: a cancelled hosted sheet counts as paid
HostedSheetPaidOrCanceled(outcome) == outcome \in {"paid", "canceled"}

\* neither initPaymentSheet nor presentPaymentSheet returned an error
HostedSheetPaid(outcome) == outcome = "paid"

\* mutant of CatchPayment: the failure is not reported to the parent
CatchPaymentSilent(d) ==
  /\ paymentStep' = [paymentStep EXCEPT ![d] = "error"]
  /\ UNCHANGED alert
  /\ UNCHANGED successTimer

\* the catch block of handlePayment: onFailure is the screen's
\* handlePaymentFailure, an alert
CatchPayment(d) ==
  /\ paymentStep' = [paymentStep EXCEPT ![d] = "error"]
  /\ alert' = Alert(d, "payment_failed")
  /\ UNCHANGED successTimer

\* handlePayment from the return of initPaymentSheet to its end, finally
\* block included; `fail` names the store call of confirmPayment that throws
HandlePaymentDone(d, outcome, fail) ==
  /\ loading[d] /\ paymentStep[d] = "processing"
  /\ paymentIntent[d] # NoIntent
  /\ IF HostedSheetPaid(outcome)
     THEN /\ ConfirmPaymentStore(d, paymentIntent[d].id,
                                 "stripe_payment_method", fail)
          /\ IF lastCall'.outcome = "ok"
             THEN /\ paymentStep' = [paymentStep EXCEPT ![d] = "success"]
                  /\ successTimer' = [successTimer EXCEPT ![d] = TRUE]
                  /\ UNCHANGED alert
             ELSE CatchPayment(d)
     ELSE /\ fail = "none"
          /\ UNCHANGED <<bookings, payments, lastCall>>
          /\ IF outcome = "canceled"
             THEN UNCHANGED <<paymentStep, alert, successTimer>>
             ELSE CatchPayment(d)
  /\ loading' = [loading EXCEPT ![d] = FALSE]
  /\ UNCHANGED <<showPaymentModal, paymentIntent>>
  /\ SheetFrame

\* the timer handlePayment starts after a confirmed payment: onSuccess (the
\* screen's handlePaymentSuccess, an alert), onClose, resetPayment
SuccessTimerFires(d) ==
  /\ successTimer[d]
  /\ successTimer' = [successTimer EXCEPT ![d] = FALSE]
  /\ alert' = Alert(d, "payment_success")
  /\ showPaymentModal' = [showPaymentModal EXCEPT ![d] = FALSE]
  /\ ResetPayment(d)
  /\ UNCHANGED <<bookings, payments, lastCall, loading>>
  /\ SheetFrame

\* mutant of HandleClose: the intent is kept when the sheet is closed
HandleCloseKeepsIntent(d) ==
  /\ SheetShown(d)
  /\ IF loading[d]
     THEN UNCHANGED <<showPaymentModal, paymentIntent, paymentStep>>
     ELSE /\ showPaymentModal' = [showPaymentModal EXCEPT ![d] = FALSE]
          /\ UNCHANGED <<paymentIntent, paymentStep>>
  /\ UNCHANGED <<bookings, payments, lastCall, alert, loading, successTimer>>
  /\ SheetFrame

\* handleClose, reached from the close button, the Cancel button and the
\* modal's onRequestClose; onClose is the screen's setShowPaymentModal(false)
HandleClose(d) ==
  /\ SheetShown(d)
  /\ IF loading[d]
     THEN UNCHANGED <<showPaymentModal, paymentIntent, paymentStep>>
     ELSE /\ showPaymentModal' = [showPaymentModal EXCEPT ![d] = FALSE]
          /\ ResetPayment(d)
  /\ UNCHANGED <<bookings, payments, lastCall, alert, loading, successTimer>>
  /\ SheetFrame

\* the parent renders the sheet with visible = true for the booking it
\* holds (ListingDetail does so at the end of handleBooking), once the timer
\* of an earlier payment has run
ShowPaymentSheet(d) ==
  /\ ~showPaymentModal[d] /\ ~sheetVisible[d]
  /\ bookingId[d] # 0
  /\ ~successTimer[d]
  /\ showPaymentModal' = [showPaymentModal EXCEPT ![d] = TRUE]
  /\ UNCHANGED <<bookings, payments, lastCall, alert, pc, bookingData,
                 bookingId, bookingAmount, serial, checkThrew, otherVars>>

\* the listing screen of driver d1 at the end of a handleBooking that stored
\* the first booking of PayStore
InitSheet ==
  /\ bookings = PayStore
  /\ payments = <<>>
  /\ lastCall = NoCall
  /\ pc = [d \in Drivers |-> "idle"]
  /\ bookingData = [d \in Drivers |-> NoData]
  /\ bookingId = [d \in Drivers |-> IF d = "d1" THEN 1 ELSE 0]
  /\ bookingAmount = [d \in Drivers |->
                        IF d = "d1" THEN PayStore[1].total_price ELSE 0]
  /\ showPaymentModal = [d \in Drivers |-> d = "d1"]
  /\ alert = [on |-> "d1", text |-> "none"]
  /\ serial = TRUE
  /\ checkThrew = FALSE
  /\ OtherInit

\* the refunds asked for while the sheet is in use: by the payer and by the
\* host of the booking, in full
SheetRefundCalls == {"d1", "h1"} \X (1..MaxSheetPayments)

NextSheet ==
  \/ \E d \in Drivers : ShowPaymentSheet(d)
  \/ \E d \in Drivers, signedIn \in BOOLEAN : SheetEffect(d, signedIn)
  \/ \E d \in Drivers, fail \in CreateFailures :
       InitializePaymentUpTo(d, fail, MaxSheetPayments)
  \/ \E d \in Drivers : HandlePaymentStart(d)
  \/ \E d \in Drivers, outcome \in PaymentOutcomes, fail \in ConfirmFailures :
       HandlePaymentDone(d, outcome, fail)
  \/ \E d \in Drivers : SuccessTimerFires(d)
  \/ \E d \in Drivers : HandleClose(d)
  \/ \E call \in SheetRefundCalls :
       ProcessRefund(call[1], call[2], NoAmount, "none")

\* one PaymentSheet from its first showing: initialization, payment, closing
\* and showing again, with refunds of its payments
SpecSheet == InitSheet /\ [][NextSheet]_vars

\* ------------------------------------------- lib/licensePlateVerification
\* String.prototype.toUpperCase on the characters used here
ToUpperChar(c) ==
  CASE c = "a" -> "A" [] c = "b" -> "B" [] c = "c" -> "C"
    [] c = "n" -> "N" [] c = "y" -> "Y" [] c = "x" -> "X"
    [] OTHER -> c

ToUpperCase(str) == [i \in DOMAIN str |-> ToUpperChar(str[i])]

\* the characters that the class \s matches, of those used here
Whitespace == {" ", "\t"}

IsWhitespace(c) == c \in Whitespace

\* mutant of RemoveWhitespace: replace without the g flag removes the first
\* match only
RECURSIVE RemoveFirstWhitespace(_)
RemoveFirstWhitespace(str) ==
  IF str = <<>> THEN <<>>
  ELSE IF IsWhitespace(Head(str)) THEN Tail(str)
  ELSE <<Head(str)>> \o RemoveFirstWhitespace(Tail(str))

NotWhitespace(c) == ~IsWhitespace(c)

\* str.replace(/\s/g, '')
RemoveWhitespace(str) == SelectSeq(str, NotWhitespace)

\* plate.toUpperCase().replace(/\s/g, '')
NormalizePlate(plate) == RemoveWhitespace(ToUpperCase(plate))

\* the names the module imports from firebase/firestore
FirestoreImports ==
  {"doc", "getDoc", "updateDoc", "collection", "addDoc", "serverTimestamp"}

\* a call of a function that the module neither imports nor declares throws
\* a ReferenceError
Unbound(name) == name \notin FirestoreImports

NoNotes == <<>>
NoDetails == <<>>
NoConfidence == "undefined"

\* the verificationData literal of createLicensePlateVerification
VerificationData(bId, plate, state) ==
  [ booking_id |-> bId,
    license_plate |-> NormalizePlate(plate),
    license_plate_state |-> ToUpperCase(state),
    verification_status |-> "pending",
    verified_by |-> "system",
    verification_method |-> "automatic",
    verification_notes |-> NoNotes,
    has_verified_at |-> FALSE ]

\* createLicensePlateVerification(bookingId, licensePlate, licensePlateState)
CreateLicensePlateVerification(bId, plate, state, fail) ==
  LET op == "createLicensePlateVerification"
  IN /\ IF fail = "addDoc"
        THEN /\ lastCall' = Call(op, "store_error", 0)
             /\ UNCHANGED verifications
        ELSE /\ Len(verifications) < MaxVerifications
             /\ lastCall' = Call(op, "ok", Len(verifications) + 1)
             /\ verifications' =
                  Append(verifications, VerificationData(bId, plate, state))
     /\ UNCHANGED <<bookings, payments, screenVars, sheetVars, plateVars>>

\* the record after updateDoc with the updateData of
\* updateLicensePlateVerification
UpdatedVerification(rec, status, verifiedBy, method, notes) ==
  [rec EXCEPT
     !.verification_status = status,
     !.verified_by = verifiedBy,
     !.verification_method = method,
     !.has_verified_at = IF status \in {"verified", "failed"} THEN TRUE ELSE @,
     !.verification_notes = IF notes # NoNotes THEN notes ELSE @]

\* the records of the booking, in the order of the collection scan
RecordsOf(bId) ==
  {i \in DOMAIN verifications : verifications[i].booking_id = bId}

\* updateLicensePlateVerification(bookingId, status, verifiedBy, method,
\* notes): whether it throws, and the collection it leaves.  Its first
\* statement after the collection reference calls getDocs; the forEach keeps
\* the id of the last record of the booking
UpdateLicensePlateVerification(bId, status, verifiedBy, method, notes, fail) ==
  IF Unbound("getDocs") \/ fail = "getDocs"
  THEN [threw |-> TRUE, store |-> verifications]
  ELSE IF RecordsOf(bId) = {}
  THEN [threw |-> FALSE, store |-> verifications]
  ELSE IF fail = "updateDoc"
  THEN [threw |-> TRUE, store |-> verifications]
  ELSE LET id == CHOOSE i \in RecordsOf(bId) : \A j \in RecordsOf(bId) : j <= i
       IN [threw |-> FALSE,
           store |-> [verifications EXCEPT ![id] =
                        UpdatedVerification(verifications[id], status,
                                            verifiedBy, method, notes)]]

\* a VerificationResult
VerificationResult(success, message, confidence, details) ==
  [success |-> success, message |-> message, confidence |-> confidence,
   details |-> details]

VerificationError ==
  VerificationResult(FALSE, "Error during verification process",
                     NoConfidence, NoDetails)

\* how the provided plate and state compare with the expected ones
MatchOf(expectedPlate, expectedState, providedPlate, providedState) ==
  IF expectedPlate = providedPlate /\ expectedState = providedState
  THEN "full"
  ELSE IF expectedPlate = providedPlate /\ expectedState # providedState
  THEN "partial"
  ELSE "none"

NoWrite == "no_write"

\* mutant of StatusWritten: a state mismatch is written as failed
StatusWrittenHardFail(match) ==
  CASE match = "full" -> "verified"
    [] match = "partial" -> "failed"
    [] match = "none" -> "failed"

\* the status that verifyLicensePlateForBooking passes to
\* updateLicensePlateVerification, if it calls it
StatusWritten(match) ==
  CASE match = "full" -> "verified"
    [] match = "partial" -> NoWrite
    [] match = "none" -> "failed"

\* the result that verifyLicensePlateForBooking returns when nothing throws
ResultOf(match, details) ==
  CASE match = "full" ->
         VerificationResult(TRUE, "License plate matches booking", "1.0",
                            details)
    [] match = "partial" ->
         VerificationResult(FALSE,
                            "License plate matches but state is different",
                            "0.5", details)
    [] match = "none" ->
         VerificationResult(FALSE, "License plate does not match booking",
                            "0.0", details)

\* verifyLicensePlateForBooking(bookingId, providedLicensePlate,
\* providedState); it returns a result on every path
VerifyLicensePlateForBooking(bId, providedLicensePlate, providedState, fail) ==
  LET op == "verifyLicensePlateForBooking"
  IN /\ IF fail = "getDoc"
        THEN /\ lastCall' = Call(op, "returned", VerificationError)
             /\ UNCHANGED verifications
        ELSE IF bId \notin DOMAIN bookings
        THEN /\ lastCall' = Call(op, "returned",
                    VerificationResult(FALSE, "Booking not found",
                                       NoConfidence, NoDetails))
             /\ UNCHANGED verifications
        ELSE LET expectedPlate == NormalizePlate(bookings[bId].license_plate)
                 expectedState == ToUpperCase(bookings[bId].license_plate_state)
                 providedPlate == NormalizePlate(providedLicensePlate)
                 providedStateUpper == ToUpperCase(providedState)
                 match == MatchOf(expectedPlate, expectedState, providedPlate,
                                  providedStateUpper)
                 details ==
                   [expected |-> [plate |-> expectedPlate,
                                  state |-> expectedState],
                    provided |-> [plate |-> providedPlate,
                                  state |-> providedStateUpper]]
                 status == StatusWritten(match)
                 upd == UpdateLicensePlateVerification(bId, status, "system",
                                                       "automatic", NoNotes,
                                                       fail)
             IN IF status = NoWrite
                THEN /\ lastCall' = Call(op, "returned",
                                         ResultOf(match, details))
                     /\ UNCHANGED verifications
                ELSE IF upd.threw
                THEN /\ lastCall' = Call(op, "returned", VerificationError)
                     /\ UNCHANGED verifications
                ELSE /\ lastCall' = Call(op, "returned",
                                         ResultOf(match, details))
                     /\ verifications' = upd.store
     /\ UNCHANGED <<bookings, payments, screenVars, sheetVars, plateVars>>

\* manualLicensePlateVerification(bookingId, isVerified, hostId, notes)
ManualLicensePlateVerification(bId, isVerified, hostId, notes, fail) ==
  LET op == "manualLicensePlateVerification"
      status == IF isVerified THEN "verified" ELSE "failed"
      upd == UpdateLicensePlateVerification(bId, status, "host", "manual",
                                            notes, fail)
  IN /\ IF upd.threw
        THEN /\ lastCall' = Call(op, "threw", 0)
             /\ UNCHANGED verifications
        ELSE /\ lastCall' = Call(op, "ok", 0)
             /\ verifications' = upd.store
     /\ UNCHANGED <<bookings, payments, screenVars, sheetVars, plateVars>>

\* the texts handed to the verification functions
PlateSpaced == <<"A", "B", "C", " ", "1", "2", "3">>
PlateLower == <<"a", "b", "c", "1", "2", "3">>
ProvidedPlates == {PlateABC123, PlateSpaced, PlateLower, PlateXYZ789}
ProvidedStates == {StateCA, <<"c", "a">>, StateNY}
VerificationNotes == {NoNotes, <<"o", "k">>}
VerifyFailures == {"none", "getDoc", "getDocs", "updateDoc"}

InitVerify ==
  /\ bookings = PayStore
  /\ payments = <<>>
  /\ lastCall = NoCall
  /\ ScreenInit
  /\ OtherInit

\* the calls made: a record for every booking id and one with another plate
\* for the creation, every provided plate and state for the stored bookings, the
\* manual decision of the host and of a driver, and one call for each store
\* call that can fail
CreateVerificationCalls ==
  (BookingIds \X {PlateSpaced} \X {<<"c", "a">>} \X {"none"}) \cup
  ({1, 2} \X {PlateXYZ789} \X {StateNY} \X {"none"}) \cup
  {<<1, PlateABC123, StateCA, "addDoc">>}

VerifyCalls ==
  ((DOMAIN PayStore) \X ProvidedPlates \X ProvidedStates \X {"none"}) \cup
  {<<Len(PayStore) + 1, PlateABC123, StateCA, "none">>} \cup
  ({1} \X {PlateABC123, PlateXYZ789} \X {StateCA}
     \X (VerifyFailures \ {"none"}))

ManualCalls ==
  (BookingIds \X BOOLEAN \X {"h1", "d1"} \X VerificationNotes \X {"none"})
    \cup
  {<<1, TRUE, "h1", NoNotes, fail>> : fail \in {"getDocs", "updateDoc"}}

NextVerify ==
  \/ \E call \in CreateVerificationCalls :
       CreateLicensePlateVerification(call[1], call[2], call[3], call[4])
  \/ \E call \in VerifyCalls :
       VerifyLicensePlateForBooking(call[1], call[2], call[3], call[4])
  \/ \E call \in ManualCalls :
       ManualLicensePlateVerification(call[1], call[2], call[3], call[4],
                                      call[5])

\* calls into lib/licensePlateVerification on stored bookings
SpecVerify == InitVerify /\ [][NextVerify]_vars

\* --------------------------------------------------- LicensePlateManager
\* plate.replace(/\s/g, '').toUpperCase()
CleanPlate(plate) == ToUpperCase(RemoveWhitespace(plate))

\* the characters that /^[A-Z0-9\-\.]+$/ accepts, of those used here
PlateChars ==
  {"A", "B", "C", "N", "X", "Y", "Z", "1", "2", "3", "7", "8", "9", "-", "."}

\* validatePlateNumber(plate)
ValidatePlateNumber(plate) ==
  LET cleanPlate == CleanPlate(plate)
  IN IF Len(cleanPlate) < 2 \/ Len(cleanPlate) > 8 THEN FALSE
     ELSE \A i \in DOMAIN cleanPlate : cleanPlate[i] \in PlateChars

\* the newPlate literal of addLicensePlate; `now`: Date.now()
NewPlate(now, cleanPlate, state, plates) ==
  [ id |-> now,
    plateNumber |-> cleanPlate,
    state |-> state,
    isDefault |-> (Len(plates) = 0) ]

\* the user of the manager (useAuth().user.uid)
PlateUser == "d1"

\* what the handlers of the manager leave alone
PlateFrame ==
  UNCHANGED <<bookings, payments, lastCall, pc, bookingData, bookingId,
              bookingAmount, showPaymentModal, serial, checkThrew, sheetVars,
              verifications>>

\* onChangeText of the plate number field
SetPlateNumber(text) ==
  /\ plateNumber' = text
  /\ UNCHANGED <<licensePlates, userPlates, selectedState, plateClock,
                 writeFailed, alert>>
  /\ PlateFrame

\* onPress of a state option
SetSelectedState(state) ==
  /\ selectedState' = state
  /\ UNCHANGED <<licensePlates, userPlates, plateNumber, plateClock,
                 writeFailed, alert>>
  /\ PlateFrame

\* addLicensePlate(); `fails`: updateDoc throws
AddLicensePlate(fails) ==
  LET cleanPlate == CleanPlate(plateNumber)
      isDuplicate ==
        \E i \in DOMAIN licensePlates :
          /\ licensePlates[i].plateNumber = cleanPlate
          /\ licensePlates[i].state = selectedState
      now == plateClock + 1
      updatedPlates ==
        Append(licensePlates,
               NewPlate(now, cleanPlate, selectedState, licensePlates))
  IN /\ IF ~ValidatePlateNumber(cleanPlate)
        THEN /\ alert' = Alert(PlateUser, "invalid_plate")
             /\ UNCHANGED <<licensePlates, userPlates, plateNumber,
                            plateClock, writeFailed>>
        ELSE IF isDuplicate
        THEN /\ alert' = Alert(PlateUser, "duplicate_plate")
             /\ UNCHANGED <<licensePlates, userPlates, plateNumber,
                            plateClock, writeFailed>>
        ELSE /\ Len(licensePlates) < MaxPlates
             /\ plateClock < MaxPlateClock
             /\ plateClock' = now
             /\ IF fails
                THEN /\ alert' = Alert(PlateUser, "add_failed")
                     /\ writeFailed' = TRUE
                     /\ UNCHANGED <<licensePlates, userPlates, plateNumber>>
                ELSE /\ alert' = Alert(PlateUser, "plate_added")
                     /\ userPlates' = updatedPlates
                     /\ licensePlates' = updatedPlates
                     /\ plateNumber' = <<>>
                     /\ UNCHANGED writeFailed
     /\ UNCHANGED selectedState
     /\ PlateFrame

\* licensePlates.filter(plate => plate.id !== plateId)
WithoutPlate(plates, plateId) == SelectSeq(plates, LAMBDA p : p.id # plateId)

\* whether removeLicensePlate marks the first remaining plate as default
Promotes(plates, plateId) ==
  /\ \E i \in DOMAIN plates : plates[i].id = plateId /\ plates[i].isDefault
  /\ Len(WithoutPlate(plates, plateId)) > 0

\* updatedPlates[0].isDefault = true: the plate object is the one that the
\* array in the component's state holds too, which therefore shows the flag
\* as well
MarkDefault(plates, plateId) ==
  [i \in DOMAIN plates |->
     IF plates[i].id = plateId THEN [plates[i] EXCEPT !.isDefault = TRUE]
     ELSE plates[i]]

\* the onPress of 'Remove' in removeLicensePlate(plateId)
RemoveLicensePlate(plateId, fails) ==
  LET filtered == WithoutPlate(licensePlates, plateId)
      promoted == IF Promotes(licensePlates, plateId)
                  THEN filtered[1].id ELSE 0
      updatedPlates == IF Promotes(licensePlates, plateId)
                       THEN MarkDefault(filtered, promoted) ELSE filtered
  IN /\ \E i \in DOMAIN licensePlates : licensePlates[i].id = plateId
     /\ IF fails
        THEN /\ alert' = Alert(PlateUser, "remove_failed")
             /\ writeFailed' = TRUE
             /\ licensePlates' =
                  IF Promotes(licensePlates, plateId)
                  THEN MarkDefault(licensePlates, promoted)
                  ELSE licensePlates
             /\ UNCHANGED userPlates
        ELSE /\ alert' = Alert(PlateUser, "plate_removed")
             /\ userPlates' = updatedPlates
             /\ licensePlates' = updatedPlates
             /\ UNCHANGED writeFailed
     /\ UNCHANGED <<plateNumber, selectedState, plateClock>>
     /\ PlateFrame

\* mutant of IsDefaultAfter: the earlier default keeps its flag
IsDefaultAfterKeep(plate, plateId) == plate.isDefault \/ plate.id = plateId

\* the isDefault that setDefaultPlate gives a plate
IsDefaultAfter(plate, plateId) == plate.id = plateId

\* setDefaultPlate(plateId); the button is rendered for the plates that are
\* not the default
SetDefaultPlate(plateId, fails) ==
  LET updatedPlates ==
        [i \in DOMAIN licensePlates |->
           [licensePlates[i] EXCEPT
              !.isDefault = IsDefaultAfter(licensePlates[i], plateId)]]
  IN /\ \E i \in DOMAIN licensePlates :
          licensePlates[i].id = plateId /\ ~licensePlates[i].isDefault
     /\ IF fails
        THEN /\ alert' = Alert(PlateUser, "set_default_failed")
             /\ writeFailed' = TRUE
             /\ UNCHANGED <<licensePlates, userPlates>>
        ELSE /\ alert' = Alert(PlateUser, "default_updated")
             /\ userPlates' = updatedPlates
             /\ licensePlates' = updatedPlates
             /\ UNCHANGED writeFailed
     /\ UNCHANGED <<plateNumber, selectedState, plateClock>>
     /\ PlateFrame

\* the texts typed into the plate number field
PlateTexts ==
  { <<"a", " ", "b", " ", "1">>,
    <<"A", "B", "1">>,
    <<"x", "\t", "9">>,
    <<"c">>,
    <<"a", "!", "1">> }

PlateStates == {StateCA, StateNY}

NextPlates ==
  \/ \E text \in PlateTexts : SetPlateNumber(text)
  \/ \E state \in PlateStates : SetSelectedState(state)
  \/ \E fails \in BOOLEAN : AddLicensePlate(fails)
  \/ \E plateId \in 1..MaxPlateClock, fails \in BOOLEAN :
       RemoveLicensePlate(plateId, fails)
  \/ \E plateId \in 1..MaxPlateClock, fails \in BOOLEAN :
       SetDefaultPlate(plateId, fails)

\* one LicensePlateManager of a user who starts without plates
SpecPlates == Init /\ [][NextPlates]_vars

\* ------------------------------------------------------------- properties
\* the interval of a booking, in minutes
StartOf(b) == IsoMinutes(b.start_time)
EndOf(b) == IsoMinutes(b.end_time)
Intersect(a, b) == StartOf(a) < EndOf(b) /\ EndOf(a) > StartOf(b)

DoubleBooked ==
  \E i, j \in DOMAIN bookings :
    /\ i < j
    /\ bookings[i].listing_id = bookings[j].listing_id
    /\ Intersect(bookings[i], bookings[j])

SameListingPairStored ==
  \E i, j \in DOMAIN bookings :
    i < j /\ bookings[i].listing_id = bookings[j].listing_id

ValidInputs ==
  {sel \in Selections :
     SetHours(sel[2], sel[3].startTime) < SetHours(sel[2], sel[3].endTime)}

DataOf(d, in) ==
  MakeBookingData(d, in[1], SetHours(in[2], in[3].startTime),
                  SetHours(in[2], in[3].endTime), in[4])

\* the stored bookings of the listing that intersect the request, by minutes
HitsOf(data) ==
  {i \in DOMAIN bookings : /\ bookings[i].listing_id = data.listing_id
                           /\ Intersect(bookings[i], data)}

\* C1: when the handleBooking runs do not interleave and no overlap query
\* throws, no two stored bookings of one listing have intersecting intervals.
C1_NoDoubleBookingWhenSerial == (serial /\ ~checkThrew) => ~DoubleBooked

C1_Witness == serial /\ ~checkThrew /\ SameListingPairStored
              /\ alert.text = "slot_taken"

\* C2: the booking write is not tied to the overlap query: a run that has
\* passed its query persists exactly its bookingData whatever the store holds
\* by then (only a throwing createBooking prevents it), so two runs that both
\* pass the query before either writes both persist.
C2_WriteNotRevalidated ==
  [][\A d \in Drivers :
       (pc[d] = "create" /\ pc'[d] = "idle") =>
          \/ bookings' = Append(bookings, bookingData[d])
          \/ alert' = Alert(d, "create_failed") /\ bookings' = bookings]_vars

C2_Witness == ~serial /\ ~checkThrew /\ DoubleBooked

\* C3: when the overlap query throws, handleBooking goes on to createBooking
\* with the same bookingData as after an empty result, intersecting stored
\* bookings or not.
C3_FailOpen ==
  [][\A d \in Drivers : \A in \in ValidInputs :
       HandleBookingCheck(d, TRUE, in[1], in[2], in[3], in[4], TRUE) =>
          /\ pc'[d] = "create"
          /\ bookingData'[d] = DataOf(d, in)
          /\ bookings' = bookings
          /\ alert' = alert]_vars

C3_Witness == serial /\ checkThrew /\ DoubleBooked

\* C4: for every listing and candidate interval the overlap checker returns
\* exactly the stored bookings of that listing whose interval intersects
\* the candidate.
C4_OverlapCheckerExact ==
  \A l \in Listings : \A day \in Days : \A slot \in TimeSlots :
    LET s == SetHours(day, slot.startTime)
        e == SetHours(day, slot.endTime)
        result == GetOverlappingBookings(l.id, ToISOString(s), ToISOString(e))
    IN /\ {result[k] : k \in DOMAIN result} =
            {i \in DOMAIN bookings : /\ bookings[i].listing_id = l.id
                                     /\ StartOf(bookings[i]) < e
                                     /\ EndOf(bookings[i]) > s}
       /\ \A k1, k2 \in DOMAIN result : k1 # k2 => result[k1] # result[k2]

C4_Witness ==
  /\ alert.text = "slot_taken"
  /\ \E i, j \in DOMAIN bookings :
       /\ bookings[i].listing_id # bookings[j].listing_id
       /\ Intersect(bookings[i], bookings[j])

\* C5: the overlap relation is symmetric on every pair of booking intervals
\* of one listing, and intervals that only touch do not overlap.
InPlay ==
  {bookings[i] : i \in DOMAIN bookings} \cup
  {bookingData[d] : d \in InFlight}

C5_OverlapSymmetricTouching ==
  \A a, b \in InPlay :
    a.listing_id = b.listing_id =>
      /\ Overlaps(a, b.start_time, b.end_time) =
         Overlaps(b, a.start_time, a.end_time)
      /\ a.end_time = b.start_time =>
           /\ ~Overlaps(a, b.start_time, b.end_time)
           /\ ~Overlaps(b, a.start_time, a.end_time)

C5_Witness ==
  \E i, j \in DOMAIN bookings :
    /\ bookings[i].listing_id = bookings[j].listing_id
    /\ bookings[i].end_time = bookings[j].start_time

\* C6: after a successful overlap query handleBooking rejects the request
\* (alert, nothing written, payment sheet not opened) when a stored booking
\* of the listing intersects it, and otherwise goes on to write it; a
\* request that only touches a stored booking is written.
C6_RejectIffOverlap ==
  [][/\ \A d \in Drivers : \A in \in ValidInputs :
          HandleBookingCheck(d, TRUE, in[1], in[2], in[3], in[4], FALSE) =>
            IF HitsOf(DataOf(d, in)) # {}
            THEN /\ pc'[d] = "idle"
                 /\ bookings' = bookings
                 /\ showPaymentModal' = showPaymentModal
                 /\ bookingId' = bookingId
                 /\ alert' = Alert(d, "slot_taken")
            ELSE /\ pc'[d] = "create"
                 /\ bookingData'[d] = DataOf(d, in)
     /\ \A d \in Drivers :
          HandleBookingCreate(d, FALSE) =>
            /\ bookings' = Append(bookings, bookingData[d])
            /\ showPaymentModal'[d]]_vars

Nine == ToISOString(SetHours(1, <<9, 0>>))
Ten == ToISOString(SetHours(1, <<10, 0>>))
Eleven == ToISOString(SetHours(1, <<11, 0>>))

\* 09:00-10:00 and 10:00-11:00 stored for one listing after a rejection
C6_Witness ==
  /\ serial /\ ~checkThrew
  /\ alert.text = "slot_taken"
  /\ \E i, j \in DOMAIN bookings :
       /\ bookings[i].listing_id = bookings[j].listing_id
       /\ bookings[i].start_time = Nine /\ bookings[i].end_time = Ten
       /\ bookings[j].start_time = Ten /\ bookings[j].end_time = Eleven

\* ---------------------------------------------------- payment properties
AllowedBookingTransitions ==
  { <<"pending", "confirmed">>, <<"pending", "cancelled">>,
    <<"confirmed", "cancelled">>, <<"confirmed", "completed">> }

\* C7: every change of a booking's status made by confirmPayment or
\* processRefund is one of pending->confirmed, pending->cancelled,
\* confirmed->cancelled, confirmed->completed.
C7_BookingTransitionsOnly ==
  [][\A b \in DOMAIN bookings :
       bookings'[b].status # bookings[b].status =>
         <<bookings[b].status, bookings'[b].status>> \in AllowedBookingTransitions]_vars

\* the payments and bookings other than p and b are as before
OnlyChanged(p, b) ==
  /\ DOMAIN payments' = DOMAIN payments
  /\ DOMAIN bookings' = DOMAIN bookings
  /\ \A q \in DOMAIN payments : q # p => payments'[q] = payments[q]
  /\ \A c \in DOMAIN bookings : c # b => bookings'[c] = bookings[c]

\* C8: confirmPayment by an authenticated user with the intent id of one of
\* that user's payments (no store call failing) sets that payment to
\* completed and its booking to confirmed, with the payment id on the booking.
\* (Every branch of ConfirmPayment records its name in lastCall, so only a
\* step whose lastCall' names confirmPayment can be such a call.)
C8_ConfirmPaymentEffect ==
  [][lastCall'.op = "confirmPayment" =>
     \A u \in Users : \A i \in IntentIds :
       (PaymentsQuery(i, u) # {}
          /\ ConfirmPayment(u, i, "stripe_payment_method", "none")) =>
         \E p \in PaymentsQuery(i, u) :
           LET b == payments[p].booking_id
           IN /\ payments'[p].status = "completed"
              /\ payments'[p].payment_intent_id = i
              /\ payments'[p].user_id = u
              /\ bookings'[b].status = "confirmed"
              /\ bookings'[b].payment_id = p
              /\ lastCall' = Call("confirmPayment", "ok", p)
              /\ OnlyChanged(p, b)]_vars

C8_Witness ==
  /\ lastCall.op = "confirmPayment" /\ lastCall.outcome = "ok"
  /\ payments[lastCall.ret].status = "completed"
  /\ bookings[payments[lastCall.ret].booking_id].status = "confirmed"
  /\ bookings[payments[lastCall.ret].booking_id].payment_id = lastCall.ret

\* C9: a payment is created pending, and its status then changes only from
\* pending to completed and from completed to refunded.
C9_PaymentLifecycle ==
  [][/\ \A p \in DOMAIN payments' :
          p \notin DOMAIN payments => payments'[p].status = "pending"
     /\ \A p \in DOMAIN payments :
          payments'[p].status # payments[p].status =>
            <<payments[p].status, payments'[p].status>> \in
               { <<"pending", "completed">>, <<"completed", "refunded">> }]_vars

\* C10: createPaymentIntent by an authenticated user for a stored booking (no
\* store call failing) appends one pending payment of that booking, payer the
\* caller and payee the booking's host, and returns a handle whose id is the
\* record's payment_intent_id; without a user or a stored booking it throws
\* and the payments are as before.
\* (Every branch of CreatePaymentIntent records its name in lastCall, so only
\* a step whose lastCall' names createPaymentIntent can be such a call.)
C10_CreatePaymentIntentEffect ==
  [][lastCall'.op = "createPaymentIntent" =>
     \A call \in CreateCalls :
       LET u == call[1]
           bId == call[2]
       IN ((call[4] = "none" \/ u = NoUser \/ bId \notin DOMAIN bookings)
             /\ CreatePaymentIntent(u, bId, call[3], call[4])) =>
            IF u = NoUser \/ bId \notin DOMAIN bookings
            THEN /\ payments' = payments
                 /\ bookings' = bookings
                 /\ lastCall'.outcome \in
                      {"unauthenticated", "not_found", "store_error"}
            ELSE LET n == Len(payments) + 1
                 IN /\ Len(payments') = n
                    /\ \A q \in DOMAIN payments : payments'[q] = payments[q]
                    /\ bookings' = bookings
                    /\ payments'[n].status = "pending"
                    /\ payments'[n].booking_id = bId
                    /\ payments'[n].user_id = u
                    /\ payments'[n].host_id = bookings[bId].host_id
                    /\ lastCall'.outcome = "ok"
                    /\ lastCall'.ret.id = payments'[n].payment_intent_id
                    /\ lastCall'.ret.id # NoIntent
                    /\ lastCall'.ret.client_secret = ClientSecret(n)
                    /\ \A q \in DOMAIN payments :
                         payments[q].payment_intent_id # lastCall'.ret.id]_vars

C10_Witness ==
  /\ lastCall.op = "createPaymentIntent" /\ lastCall.outcome = "ok"
  /\ \E p \in DOMAIN payments :
       /\ payments[p].payment_intent_id = lastCall.ret.id
       /\ payments[p].status = "pending"
       /\ payments[p].user_id \in Drivers
       /\ payments[p].host_id = bookings[payments[p].booking_id].host_id

\* ------------------------------------------------- payment flow properties
\* C11: the payment record that the PaymentSheet creates for a booking of
\* total price P (dollars) has amount 100 * P (cents), the same value as the
\* amount of the returned payment handle.
C11_PaymentAmountInCents ==
  [][\A d \in Drivers :
       (loading[d] /\ Len(payments') = Len(payments) + 1
          /\ lastCall'.op = "createPaymentIntent" /\ lastCall'.outcome = "ok"
          /\ paymentIntent'[d] = lastCall'.ret) =>
         LET n == Len(payments')
             P == bookings[payments'[n].booking_id].total_price
         IN /\ payments'[n].amount = 100 * P
            /\ payments'[n].amount = lastCall'.ret.amount]_vars

\* the selections of the payment flow whose start is before their end
FlowValid ==
  {sel \in FlowSelections :
     SetHours(sel[2], sel[3].startTime) < SetHours(sel[2], sel[3].endTime)}

C13_PendingWithSelectedPlate ==
  [][/\ \A d \in Drivers : \A press \in FlowPresses :
          ((~press[1] \/ press[3] = NoDay \/ press[4] = NoSlot
               \/ press[5] = NoPlate)
             /\ HandleBookingCheck(d, press[1], press[2], press[3], press[4],
                                   press[5], press[6])) =>
            /\ bookings' = bookings
            /\ pc'[d] = "idle"
            /\ bookingData'[d] = NoData
            /\ alert'.on = d
            /\ alert'.text \in {"sign_in", "select_slot", "plate_required"}
     /\ \A d \in Drivers : \A in \in FlowValid : \A threw \in BOOLEAN :
          (HandleBookingCheck(d, TRUE, in[1], in[2], in[3], in[4], threw)
             /\ pc'[d] = "create") =>
            /\ bookingData'[d].status = "pending"
            /\ bookingData'[d].license_plate = in[4].plateNumber
            /\ bookingData'[d].license_plate_state = in[4].state
            /\ bookingData'[d].user_id = d
     /\ \A d \in Drivers :
          (pc[d] = "create" /\ bookings' # bookings /\ pc'[d] = "idle") =>
            /\ bookings' = Append(bookings, bookingData[d])
            /\ bookings'[Len(bookings')].status = "pending"]_vars

C13_Witness ==
  /\ alert.text \in {"sign_in", "select_slot", "plate_required"}
  /\ \E i \in DOMAIN bookings :
       /\ bookings[i].status = "pending"
       /\ bookings[i].license_plate = PlateXYZ789
       /\ bookings[i].license_plate_state = StateNY

\* C14: a selection whose start is at or after its end is rejected with
\* nothing written, and every booking that handleBooking builds or persists
\* has start < end.
C14_StartBeforeEnd ==
  [][/\ \A d \in Drivers : \A in \in FlowSelections \ FlowValid :
          HandleBookingCheck(d, TRUE, in[1], in[2], in[3], in[4], FALSE) =>
            /\ bookings' = bookings
            /\ pc'[d] = "idle"
            /\ bookingData'[d] = NoData
            /\ alert' = Alert(d, "start_before_end")
     /\ \A i \in DOMAIN bookings' :
          IsoMinutes(bookings'[i].start_time) < IsoMinutes(bookings'[i].end_time)
     /\ \A d \in Drivers :
          pc'[d] = "create" =>
            IsoMinutes(bookingData'[d].start_time) <
              IsoMinutes(bookingData'[d].end_time)]_vars

C14_Witness ==
  /\ alert.text = "start_before_end"
  /\ bookings # <<>>

\* ------------------------------------------------ verification properties
\* the normalized plate and state stored on booking b
ExpectedPlate(b) == NormalizePlate(bookings[b].license_plate)
ExpectedState(b) == ToUpperCase(bookings[b].license_plate_state)

\* the verifyLicensePlateForBooking calls on a stored booking in which no
\* store call fails
PlainVerifyCalls ==
  {call \in VerifyCalls : call[1] \in DOMAIN PayStore /\ call[4] = "none"}

\* C15: verifyLicensePlateForBooking on an existing booking, compared after
\* normalization: plate and state match -> the booking's verification record
\* becomes verified and the result is a success with confidence 1.0; plate
\* matches, state differs -> failure with confidence 0.5; plate differs ->
\* the record becomes failed and the result is a failure with confidence 0.0.
C15_ThreeOutcomes ==
  [][lastCall'.op = "verifyLicensePlateForBooking" =>
     \A call \in PlainVerifyCalls :
       VerifyLicensePlateForBooking(call[1], call[2], call[3], call[4]) =>
         LET b == call[1]
             samePlate == NormalizePlate(call[2]) = ExpectedPlate(b)
             sameState == ToUpperCase(call[3]) = ExpectedState(b)
             res == lastCall'.ret
         IN IF samePlate /\ sameState
            THEN /\ res.success /\ res.confidence = "1.0"
                 /\ RecordsOf(b) # {} =>
                      \E i \in RecordsOf(b) :
                        verifications'[i].verification_status = "verified"
            ELSE IF samePlate
            THEN ~res.success /\ res.confidence = "0.5"
            ELSE /\ ~res.success /\ res.confidence = "0.0"
                 /\ RecordsOf(b) # {} =>
                      \E i \in RecordsOf(b) :
                        verifications'[i].verification_status = "failed"]_vars

\* C16: when the provided plate matches the booking's plate and the state
\* differs (stored CA, provided NY), verifyLicensePlateForBooking returns a
\* failure with confidence 0.5 and leaves the verification records as they
\* are: no status is set to failed.
C16_PartialMatchNoWrite ==
  [][lastCall'.op = "verifyLicensePlateForBooking" =>
     \A call \in PlainVerifyCalls :
       (ToUpperCase(call[3]) # ExpectedState(call[1])
          /\ NormalizePlate(call[2]) = ExpectedPlate(call[1])
          /\ VerifyLicensePlateForBooking(call[1], call[2], call[3],
                                          call[4])) =>
         /\ ~lastCall'.ret.success
         /\ lastCall'.ret.confidence = "0.5"
         /\ lastCall'.ret.message =
              "License plate matches but state is different"
         /\ verifications' = verifications]_vars

C16_Witness ==
  /\ lastCall.op = "verifyLicensePlateForBooking"
  /\ lastCall.ret.confidence = "0.5"
  /\ lastCall.ret.details.expected.state = StateCA
  /\ lastCall.ret.details.provided.state = StateNY
  /\ \E i \in DOMAIN verifications :
       /\ verifications[i].booking_id \in DOMAIN bookings
       /\ verifications[i].license_plate = lastCall.ret.details.expected.plate
       /\ verifications[i].license_plate_state = StateCA
       /\ verifications[i].verification_status = "pending"

\* C17: two calls of verifyLicensePlateForBooking for one booking whose
\* provided plates have the same normal form and whose states differ only in
\* case have the same outcome, and plate "ABC 123" state "CA" for a booking
\* stored with "ABC123" "CA" succeeds with confidence 1.0.
C17_NormalizedOutcome ==
  [][lastCall'.op = "verifyLicensePlateForBooking" =>
     /\ \A c1, c2 \in PlainVerifyCalls :
          (c1[1] = c2[1]
             /\ NormalizePlate(c1[2]) = NormalizePlate(c2[2])
             /\ ToUpperCase(c1[3]) = ToUpperCase(c2[3])) =>
            (VerifyLicensePlateForBooking(c1[1], c1[2], c1[3], c1[4]) <=>
             VerifyLicensePlateForBooking(c2[1], c2[2], c2[3], c2[4]))
     /\ \A b \in DOMAIN bookings :
          (bookings[b].license_plate = PlateABC123
             /\ bookings[b].license_plate_state = StateCA
             /\ VerifyLicensePlateForBooking(b, PlateSpaced, StateCA,
                                             "none")) =>
            /\ lastCall'.ret.success
            /\ lastCall'.ret.confidence = "1.0"]_vars

\* C19: manualLicensePlateVerification(bookingId, isVerified, hostId, notes)
\* for a booking with a verification record sets that record's status to
\* verified when isVerified and to failed otherwise, with verified_by host,
\* method manual and the notes stored, whatever the status was and whoever
\* the caller is.
C19_ManualOverride ==
  [][lastCall'.op = "manualLicensePlateVerification" =>
     \A call \in ManualCalls :
       (call[5] = "none" /\ RecordsOf(call[1]) # {}
          /\ ManualLicensePlateVerification(call[1], call[2], call[3],
                                            call[4], call[5])) =>
         \E i \in RecordsOf(call[1]) :
           /\ verifications'[i].verification_status =
                (IF call[2] THEN "verified" ELSE "failed")
           /\ verifications'[i].verified_by = "host"
           /\ verifications'[i].verification_method = "manual"
           /\ call[4] # NoNotes =>
                verifications'[i].verification_notes = call[4]]_vars

\* ------------------------------------------------------ plate properties
\* C18: normalizing a plate text (uppercase, all whitespace removed) twice
\* gives the same text as normalizing it once, in the order of the
\* verification library and in the order of the LicensePlateManager, for the
\* text in the plate number field and for every plate number stored.
C18_NormalizeIdempotent ==
  /\ NormalizePlate(NormalizePlate(plateNumber)) = NormalizePlate(plateNumber)
  /\ CleanPlate(CleanPlate(plateNumber)) = CleanPlate(plateNumber)
  /\ NormalizePlate(plateNumber) = CleanPlate(plateNumber)
  /\ \A i \in DOMAIN userPlates :
       /\ NormalizePlate(userPlates[i].plateNumber) = userPlates[i].plateNumber
       /\ CleanPlate(userPlates[i].plateNumber) = userPlates[i].plateNumber

C18_Witness ==
  /\ CleanPlate(plateNumber) # plateNumber
  /\ \E i \in DOMAIN plateNumber : IsWhitespace(plateNumber[i])
  /\ \E i \in DOMAIN userPlates :
       userPlates[i].plateNumber = CleanPlate(plateNumber)

\* the list is empty or exactly one of its plates is the default
OneDefault(plates) ==
  \/ plates = <<>>
  \/ Cardinality({i \in DOMAIN plates : plates[i].isDefault}) = 1

\* C20: as long as every add, remove and setDefault has succeeded, the stored
\* plate list (and the list in the component) is empty or has exactly one
\* default plate.
C20_OneDefaultPlate ==
  ~writeFailed => (OneDefault(userPlates) /\ OneDefault(licensePlates))

C20_Witness ==
  /\ ~writeFailed
  /\ Len(userPlates) >= 2
  /\ userPlates[1].id > 1
  /\ userPlates[2].isDefault

\* the plate of the list with the given id
PlateWithId(plates, plateId) ==
  plates[CHOOSE i \in DOMAIN plates : plates[i].id = plateId]

\* C21: a successful removal of the default plate while other plates exist
\* leaves the other plates in their order with the first of them the one and
\* only default; a successful removal of a plate that is not the default
\* leaves the other plates as they are, the default among them.
C21_RemovePromotesFirst ==
  [][\A plateId \in 1..MaxPlateClock :
       RemoveLicensePlate(plateId, FALSE) =>
         LET removed == PlateWithId(licensePlates, plateId)
             rest == WithoutPlate(licensePlates, plateId)
         IN /\ licensePlates' = userPlates'
            /\ Len(userPlates') = Len(rest)
            /\ \A i \in DOMAIN rest :
                 /\ userPlates'[i].id = rest[i].id
                 /\ userPlates'[i].plateNumber = rest[i].plateNumber
                 /\ userPlates'[i].state = rest[i].state
            /\ IF removed.isDefault /\ rest # <<>>
               THEN /\ userPlates'[1].isDefault
                    /\ \A i \in DOMAIN rest : i > 1 => ~userPlates'[i].isDefault
               ELSE userPlates' = rest]_vars

\* C25: a removeLicensePlate whose write fails leaves the list in the
\* component and the stored list as they are, default flags included, and
\* every list that a later add, remove or setDefault stores is empty or has
\* exactly one default plate.
C25_FailedRemoveKeepsList ==
  [][/\ \A plateId \in 1..MaxPlateClock :
          RemoveLicensePlate(plateId, TRUE) =>
            /\ licensePlates' = licensePlates
            /\ userPlates' = userPlates
     /\ userPlates' # userPlates => OneDefault(userPlates')]_vars

\* -------------------------------------------- refund and confirm properties
\* the processRefund calls in which no store call fails
PlainRefundCalls == {call \in RefundCalls : call[4] = "none"}

\* C24: processRefund without a user, for an unknown payment id or by a user
\* who is neither the payment's payer nor its host throws and leaves payments
\* and bookings as they are; by the payer or the host (no store call failing)
\* it sets the payment to refunded, and sets the booking to cancelled when no
\* amount is given or the amount is at least the payment's amount, while a
\* smaller amount leaves the booking's status as it is.
\* (Every branch of ProcessRefund records its name in lastCall.  A step that
\* fails and changes nothing is what the claim wants of a call that is not
\* allowed, so there it is left to show that the step is no call of the payer
\* or the host; for every other step each call is looked at.)
C24_RefundAuthorization ==
  [][lastCall'.op = "processRefund" =>
     IF /\ lastCall'.outcome # "ok"
        /\ payments' = payments
        /\ bookings' = bookings
     THEN \A pId \in DOMAIN payments :
            \A u \in {payments[pId].user_id, payments[pId].host_id} :
              \A amount \in RefundAmounts :
                ~ProcessRefund(u, pId, amount, "none")
     ELSE \A call \in PlainRefundCalls :
            LET u == call[1]
                pId == call[2]
                amount == call[3]
                allowed ==
                  /\ u # NoUser
                  /\ pId \in DOMAIN payments
                  /\ u \in {payments[pId].user_id, payments[pId].host_id}
                b == payments[pId].booking_id
            IN ProcessRefund(u, pId, amount, call[4]) =>
                 /\ allowed
                 /\ lastCall' = Call("processRefund", "ok", pId)
                 /\ payments'[pId].status = "refunded"
                 /\ bookings'[b].status =
                      (IF amount = NoAmount \/ amount >= payments[pId].amount
                       THEN "cancelled" ELSE bookings[b].status)
                 /\ OnlyChanged(pId, b)]_vars

\* the confirmPayment step fails and leaves payments and bookings as they are
ConfirmFailedUnchanged ==
  /\ lastCall'.outcome # "ok"
  /\ payments' = payments
  /\ bookings' = bookings

\* C26: every booking that a confirmPayment step changes is confirmed and
\* names a payment of this booking that is completed in the same state; when
\* the booking write fails after the payment write, confirmPayment throws,
\* the payment is completed and the bookings are as before.
\* (Every branch of ConfirmPayment records its name in lastCall.)
C26_PaymentBeforeBooking ==
  [][lastCall'.op = "confirmPayment" =>
     \/ ConfirmFailedUnchanged
     \/ /\ \A b \in DOMAIN bookings :
             bookings'[b] # bookings[b] =>
               /\ bookings'[b].status = "confirmed"
               /\ bookings'[b].payment_id \in DOMAIN payments'
               /\ payments'[bookings'[b].payment_id].status = "completed"
               /\ payments'[bookings'[b].payment_id].booking_id = b
        /\ \A u \in Users : \A i \in IntentIds :
             (PaymentsQuery(i, u) # {}
                /\ ConfirmPayment(u, i, "stripe_payment_method",
                                  "updateBooking")) =>
               /\ lastCall' = Call("confirmPayment", "store_error", 0)
               /\ bookings' = bookings
               /\ \E p \in PaymentsQuery(i, u) :
                    /\ payments'[p].status = "completed"
                    /\ \A q \in DOMAIN payments :
                         q # p => payments'[q] = payments[q]]_vars

\* confirmPayment has thrown at the booking write: a completed payment of a
\* pending booking
C26_Witness ==
  /\ lastCall = Call("confirmPayment", "store_error", 0)
  /\ \E p \in DOMAIN payments :
       /\ payments[p].status = "completed"
       /\ bookings[payments[p].booking_id].status = "pending"

\* C27: confirmPayment without a user, or with an intent id that no payment
\* of the calling user carries (an unknown id, or the id of another user's
\* payment), throws and leaves payments and bookings as they are.
C27_ConfirmOwnPaymentOnly ==
  [][lastCall'.op = "confirmPayment" =>
     \/ ConfirmFailedUnchanged
     \/ \A call \in ConfirmCalls :
          (call[1] = NoUser
             \/ \A p \in DOMAIN payments :
                  ~(payments[p].payment_intent_id = call[2]
                      /\ payments[p].user_id = call[1])) =>
            ~ConfirmPayment(call[1], call[2], "stripe_payment_method",
                            call[3])]_vars

\* confirmPayment has thrown 'Payment not found' while another user's pending
\* payment carries an intent id
C27_Witness ==
  /\ lastCall = Call("confirmPayment", "not_found", 0)
  /\ \E p \in DOMAIN payments :
       /\ payments[p].payment_intent_id # NoIntent
       /\ payments[p].status = "pending"

\* C22: closing the PaymentSheet or cancelling the hosted sheet changes
\* neither the bookings nor the payment records, and a booking leaves the
\* status pending only in a step of a confirmPayment or processRefund call
\* that succeeded for a payment of that booking
C22_AbandonedStaysPending ==
  [][ /\ \A d \in Drivers :
           (HandleClose(d) \/ HandlePaymentDone(d, "canceled", "none"))
             => (bookings' = bookings /\ payments' = payments)
      /\ \A b \in DOMAIN bookings :
           (bookings[b].status = "pending" /\ bookings'[b].status # "pending")
             => /\ lastCall'.op \in {"confirmPayment", "processRefund"}
                /\ lastCall'.outcome = "ok"
                /\ payments'[lastCall'.ret].booking_id = b
                /\ \/ \E d \in Drivers, fail \in ConfirmFailures :
                         HandlePaymentDone(d, "paid", fail)
                   \/ \E call \in SheetRefundCalls :
                         ProcessRefund(call[1], call[2], NoAmount, "none")
    ]_vars

\* the sheet was closed after its intent was created: the payment record and
\* the booking are pending and the sheet holds nothing
C22_Witness ==
  /\ ~showPaymentModal["d1"] /\ ~sheetVisible["d1"]
  /\ paymentIntent["d1"] = NoIntent
  /\ Len(payments) = 1
  /\ payments[1].status = "pending"
  /\ payments[1].payment_intent_id # NoIntent
  /\ bookings[payments[1].booking_id].status = "pending"

\* C23: when the hosted sheet reports success handlePayment calls
\* confirmPayment; the step success and the timer that calls onSuccess come
\* only with a confirmPayment that completed (payment completed, booking
\* confirmed), and onSuccess is called only from that timer; when
\* initialization, presentation or confirmPayment fails the step is error,
\* onFailure is called and no onSuccess is pending
C23_SuccessOnlyAfterConfirm ==
  [][ \A d \in Drivers :
        /\ \A fail \in ConfirmFailures :
             HandlePaymentDone(d, "paid", fail) =>
               /\ lastCall'.op = "confirmPayment"
               /\ IF lastCall'.outcome = "ok"
                  THEN /\ paymentStep'[d] = "success"
                       /\ successTimer'[d]
                       /\ alert' = alert
                  ELSE /\ paymentStep'[d] = "error"
                       /\ alert' = Alert(d, "payment_failed")
                       /\ ~successTimer'[d]
        /\ \A outcome \in {"init_error", "present_error"} :
             HandlePaymentDone(d, outcome, "none") =>
               /\ paymentStep'[d] = "error"
               /\ alert' = Alert(d, "payment_failed")
               /\ ~successTimer'[d]
               /\ UNCHANGED <<bookings, payments, lastCall>>
        /\ ((paymentStep'[d] = "success" /\ paymentStep[d] # "success")
              \/ (successTimer'[d] /\ ~successTimer[d]))
             => /\ lastCall'.op = "confirmPayment"
                /\ lastCall'.outcome = "ok"
                /\ LET p == lastCall'.ret
                   IN /\ payments'[p].payment_intent_id = paymentIntent[d].id
                      /\ payments'[p].status = "completed"
                      /\ bookings'[payments'[p].booking_id].status = "confirmed"
        /\ SuccessTimerFires(d) => alert' = Alert(d, "payment_success")
        /\ (alert' # alert /\ alert' = Alert(d, "payment_success"))
             => successTimer[d]
    ]_vars

\* a payment that failed was tried again and confirmed: the sheet shows the
\* success step and the timer that calls onSuccess is pending
C23_Witness ==
  /\ alert = Alert("d1", "payment_failed")
  /\ paymentStep["d1"] = "success"
  /\ successTimer["d1"]
  /\ lastCall = Call("confirmPayment", "ok", 1)
  /\ payments[1].status = "completed"
  /\ bookings[payments[1].booking_id].status = "confirmed"

\* the sheet offers a button that starts handlePayment with its intent: Pay
\* in step initial, Try Again in step error
PaymentOffered(d) ==
  /\ SheetShown(d) /\ ~loading[d]
  /\ paymentIntent[d] # NoIntent
  /\ paymentStep[d] \in {"initial", "error"}

\* C29: when the hosted sheet is cancelled handlePayment calls neither
\* confirmPayment nor onFailure nor onSuccess, does not enter the step error,
\* ends with loading false, and the sheet then offers the payment again
C29_CanceledCanPayAgain ==
  [][ \A d \in Drivers :
        HandlePaymentDone(d, "canceled", "none") =>
          /\ UNCHANGED <<bookings, payments, lastCall, alert, successTimer>>
          /\ paymentStep'[d] # "error"
          /\ ~loading'[d]
          /\ PaymentOffered(d)'
    ]_vars

\* the sheet's calls of createPaymentIntent and its handleClose, for an
\* effect that runs with each of the values `signedIns` of "a user is signed
\* in": the effect of a sheet that became visible without an intent starts
\* one initialization; an initialization is in flight only from such an
\* effect and each call of createPaymentIntent ends one; no call is made for
\* a sheet that holds an intent; handleClose does nothing while loading and
\* otherwise hides the sheet and discards the intent; an initialization for
\* a booking that has a payment record appends one more record for that
\* booking and leaves the earlier records as they are
SheetCallsOnce(signedIns) ==
  \A d \in Drivers :
    /\ \A signedIn \in signedIns :
         (SheetEffect(d, signedIn) /\ showPaymentModal[d]
            /\ paymentIntent[d] = NoIntent)
           => (~loading[d] /\ loading'[d])
    /\ (~loading[d] /\ loading'[d] /\ paymentIntent[d] = NoIntent)
         => (showPaymentModal[d] /\ ~sheetVisible[d] /\ sheetVisible'[d])
    /\ \A fail \in CreateFailures :
         InitializePaymentUpTo(d, fail, MaxSheetPayments) =>
           /\ lastCall'.op = "createPaymentIntent"
           /\ loading[d] /\ ~loading'[d]
           /\ sheetVisible[d] /\ paymentIntent[d] = NoIntent
           /\ Len(payments') <= Len(payments) + 1
    /\ (paymentIntent[d] # NoIntent /\ Len(payments') > Len(payments))
         => payments'[Len(payments')].user_id # d
    /\ HandleClose(d) =>
         /\ payments' = payments
         /\ IF loading[d]
            THEN UNCHANGED vars
            ELSE /\ ~showPaymentModal'[d]
                 /\ paymentIntent'[d] = NoIntent
    /\ (InitializePaymentUpTo(d, "none", MaxSheetPayments)
          /\ \E p \in DOMAIN payments : payments[p].booking_id = bookingId[d])
         => /\ Len(payments') = Len(payments) + 1
            /\ payments'[Len(payments')].booking_id = bookingId[d]
            /\ payments'[Len(payments')].payment_intent_id
                 = paymentIntent'[d].id
            /\ \A p \in DOMAIN payments : payments'[p] = payments[p]

\* C28 as stated: the sheet calls createPaymentIntent once each time it
\* becomes visible without an intent, whether or not a user is signed in,
\* and not again while it holds an intent; handleClose is a no-op while
\* loading and otherwise discards the intent, so showing the sheet again for
\* the same booking adds a second payment record and leaves the earlier one
C28_CallsOncePerShowing ==
  [][SheetCallsOnce(BOOLEAN)]_vars

\* C28, amended: as stated when a user is signed in; without a signed-in
\* user the sheet that becomes visible without an intent calls onFailure and
\* makes no call
C28_CallsOncePerShowingSignedIn ==
  [][ /\ SheetCallsOnce({TRUE})
      /\ \A d \in Drivers :
           (SheetEffect(d, FALSE) /\ showPaymentModal[d]
              /\ paymentIntent[d] = NoIntent)
             => /\ alert' = Alert(d, "payment_failed")
                /\ UNCHANGED <<loading, payments, lastCall, paymentIntent>>
    ]_vars

\* the sheet was closed and shown again for the same booking: two payment
\* records of that booking, the earlier one pending, the sheet holding the
\* intent of the later one
C28_Witness ==
  /\ Len(payments) = 2
  /\ payments[1].booking_id = payments[2].booking_id
  /\ payments[1].status = "pending"
  /\ payments[1].payment_intent_id = IntentId(1)
  /\ SheetShown("d1")
  /\ paymentIntent["d1"] # NoIntent
  /\ paymentIntent["d1"].id = payments[2].payment_intent_id

\* the manual verifications in which no store call is made to fail
PlainManualCalls == {call \in ManualCalls : call[5] = "none"}

\* the collection differs from `store` at most in record i, which has the
\* given status, verifier and method, has verified_at set when the status is
\* verified or failed, and has the notes when notes are given; every other
\* field of the record is as in `store`
OnlyUpdated(store, after, i, status, verifiedBy, method, notes) ==
  after = [store EXCEPT ![i] =
             [store[i] EXCEPT
                !.verification_status = status,
                !.verified_by = verifiedBy,
                !.verification_method = method,
                !.has_verified_at =
                   IF status \in {"verified", "failed"} THEN TRUE ELSE @,
                !.verification_notes = IF notes # NoNotes THEN notes ELSE @]]

\* C30: a verification that reaches updateLicensePlateVerification changes a
\* record only when one exists for the booking, and then sets exactly the
\* status, verified_by, the method, verified_at (the status being verified
\* or failed) and the notes when given; with no record for the booking the
\* collection is unchanged and no error is reported: the manual
\* verification returns and the automatic one returns its comparison result
C30_UpdateOnlyExistingRecord ==
  [][ /\ lastCall'.op = "manualLicensePlateVerification" =>
        \A call \in PlainManualCalls :
          ManualLicensePlateVerification(call[1], call[2], call[3], call[4],
                                         call[5]) =>
            /\ lastCall'.outcome = "ok"
            /\ IF RecordsOf(call[1]) = {}
               THEN verifications' = verifications
               ELSE \E i \in RecordsOf(call[1]) :
                      OnlyUpdated(verifications, verifications', i,
                                  IF call[2] THEN "verified" ELSE "failed",
                                  "host", "manual", call[4])
      /\ lastCall'.op = "verifyLicensePlateForBooking" =>
        \A call \in PlainVerifyCalls :
          LET match == MatchOf(ExpectedPlate(call[1]), ExpectedState(call[1]),
                               NormalizePlate(call[2]), ToUpperCase(call[3]))
          IN (match # "partial"
                /\ VerifyLicensePlateForBooking(call[1], call[2], call[3],
                                                call[4])) =>
               /\ lastCall'.ret.confidence =
                    (IF match = "full" THEN "1.0" ELSE "0.0")
               /\ IF RecordsOf(call[1]) = {}
                  THEN verifications' = verifications
                  ELSE \E i \in RecordsOf(call[1]) :
                         OnlyUpdated(verifications, verifications', i,
                                     IF match = "full" THEN "verified"
                                     ELSE "failed",
                                     "system", "automatic", NoNotes)
    ]_vars
====
